---------------------------- MODULE Spec2Model ----------------------------
(***************************************************************************)
(* Scheduling strategies of SPOS (V3/SPOS/os_scheduling_strategies.c).     *)
(*                                                                         *)
(* The process table is owned by the kernel and only read here; it is      *)
(* drawn in Init and stays fixed.  The kernel calls one selector per       *)
(* scheduler tick with the running slot and runs the slot it returns, so   *)
(* every selector action feeds its result back into `current`.  The kernel *)
(* calls os_resetSchedulingInformation when it changes the strategy, so    *)
(* the active strategy changes with that call only.                        *)
(*                                                                         *)
(* op and arg record the last call, slice counts the RoundRobin calls of   *)
(* the running time slice; the functions themselves read none of the       *)
(* three.  Within the bounds age[] stays below 256, so the width of its    *)
(* integer type plays no part.                                             *)
(***************************************************************************)
EXTENDS Integers, Naturals, Sequences, FiniteSets, TLC

(* ------------------------------ constants ------------------------------ *)

\* defines.h : number of process slots (slot 0 is the idle process)
MAX_NUMBER_OF_PROCESSES == 8

\* the `while (counter < 6)` cap of the scan loops
ScanCap == 6

\* uint8_t arithmetic of the loop counters
Byte == 256

(* -------------------------------- bounds ------------------------------- *)

\* priorities of the processes in slots 1..7 are drawn from 1..MaxPriority
MaxPriority == 2

\* processes are held in the slots 1..MaxLow and in the last slot
MaxLow == 1

\* the priority of the idle process in slot 0
IdlePriority == 1

(* ------------------------------ data model ----------------------------- *)

Slots == 0 .. (MAX_NUMBER_OF_PROCESSES - 1)

RealSlots == 1 .. (MAX_NUMBER_OF_PROCESSES - 1)

SchedulingStrategy ==
    {"OS_SS_EVEN", "OS_SS_RANDOM", "OS_SS_RUN_TO_COMPLETION",
     "OS_SS_ROUND_ROBIN", "OS_SS_INACTIVE_AGING"}

\* a slot that holds no process (neither READY nor RUNNING)
UnusedProcess == [state |-> "OS_PS_UNUSED", priority |-> 0]

\* the processes a slot can hold
Processes == [state : {"OS_PS_READY", "OS_PS_RUNNING"}, priority : 1 .. MaxPriority]

\* the idle process of slot 0
IdleProcesses == [state : {"OS_PS_READY", "OS_PS_RUNNING"}, priority : {IdlePriority}]

\* the sets of slots among 1..7 that hold a process
UsedSlots == SUBSET ((1 .. MaxLow) \cup {MAX_NUMBER_OF_PROCESSES - 1})

\* the tables the selectors are called with: the idle process in slot 0,
\* processes in some of the other slots, and at most one process RUNNING
ProcessTables ==
    { t \in UNION { { [i \in Slots |->
                         IF i = 0 THEN idle
                         ELSE IF i \in u THEN real[i]
                         ELSE UnusedProcess] :
                      idle \in IdleProcesses, real \in [u -> Processes] } :
                    u \in UsedSlots } :
        Cardinality({i \in Slots : t[i].state = "OS_PS_RUNNING"}) <= 1 }

VARIABLES
    processes,    \* the process table (Process const processes[])
    current,      \* the running slot (os_getCurrentProc())
    strategy,     \* the active strategy of the kernel
    Zeitschiebe,  \* SchedulingInfo.Zeitschiebe
    age,          \* SchedulingInfo.age[]
    op,           \* the function that ran last
    arg,          \* the slot it was called for (current, or id)
    slice         \* RoundRobin calls since the last scan or reset

vars == <<processes, current, strategy, Zeitschiebe, age, op, arg, slice>>

(* ------------------------------- helpers ------------------------------- *)

Ready(procs, i) == procs[i].state = "OS_PS_READY"

\* the READY slots among 1..7
ReadySlots(procs) == {i \in RealSlots : Ready(procs, i)}

\* the scan stepping from the last slot to slot 0
NextSlotThroughZero(i) == IF i = MAX_NUMBER_OF_PROCESSES - 1 THEN 0 ELSE i + 1

\* i = 1 when at the last slot, else the next one (never slot 0)
NextSlot(i) == IF i = MAX_NUMBER_OF_PROCESSES - 1 THEN 1 ELSE i + 1

\* the scan loop stopping at any slot that holds a process, READY or not
RECURSIVE ScanLoopUsed(_, _, _)
ScanLoopUsed(procs, i, counter) ==
    IF procs[i].state # "OS_PS_UNUSED" THEN i
    ELSE IF (counter + 1) % Byte < ScanCap
         THEN ScanLoopUsed(procs, NextSlot(i), (counter + 1) % Byte)
         ELSE 0

\* do { if READY return i; advance i; counter++; } while (counter < 6); return 0;
RECURSIVE ScanLoop(_, _, _)
ScanLoop(procs, i, counter) ==
    IF Ready(procs, i) THEN i
    ELSE IF (counter + 1) % Byte < ScanCap
         THEN ScanLoop(procs, NextSlot(i), (counter + 1) % Byte)
         ELSE 0

\* the slot os_Scheduler_Even returns
Even(procs, cur) == ScanLoop(procs, NextSlot(cur), 0)

\* procIndex[] of os_Scheduler_Random: the READY slots 1..7 in index order
RECURSIVE ProcIndex(_, _)
ProcIndex(procs, j) ==
    IF j >= MAX_NUMBER_OF_PROCESSES THEN << >>
    ELSE IF Ready(procs, j) THEN <<j>> \o ProcIndex(procs, j + 1)
    ELSE ProcIndex(procs, j + 1)

\* os_getNumberOfReadyProcs() of the kernel
os_getNumberOfReadyProcs(procs) == Cardinality(ReadySlots(procs))

\* os_Scheduler_Random collecting the READY slots from slot 0 on
RandomFromZero(procs) ==
    LET procIndex == ProcIndex(procs, 0)
        numOfReadyProc == os_getNumberOfReadyProcs(procs)
    IN  IF Len(procIndex) = 0 THEN {0}
        ELSE {procIndex[a + 1] : a \in 0 .. (numOfReadyProc - 1)}

\* the slots os_Scheduler_Random can return, one per value of rand()
Random(procs) ==
    LET procIndex == ProcIndex(procs, 1)
        numOfReadyProc == os_getNumberOfReadyProcs(procs)
    IN  IF Len(procIndex) = 0 THEN {0}
        ELSE {procIndex[a + 1] : a \in 0 .. (numOfReadyProc - 1)}

\* os_Scheduler_RunToCompletion keeping the current slot while it is READY
RunToCompletionWhileReady(procs, cur) ==
    IF procs[cur].state = "OS_PS_READY" THEN {cur}
    ELSE {ScanLoop(procs, 1, counter) : counter \in 0 .. (Byte - 1)}

\* os_Scheduler_RunToCompletion answering MAX_NUMBER_OF_PROCESSES when the scan
\* finds nothing
RunToCompletionNoneFound(procs, cur) ==
    IF procs[cur].state = "OS_PS_RUNNING" THEN {cur}
    ELSE {IF ScanLoop(procs, 1, counter) = 0 THEN MAX_NUMBER_OF_PROCESSES
          ELSE ScanLoop(procs, 1, counter) : counter \in 0 .. (Byte - 1)}

\* the slots os_Scheduler_RunToCompletion can return; `counter` is read
\* uninitialised, so the scan runs for every start value of a uint8_t
RunToCompletion(procs, cur) ==
    IF procs[cur].state = "OS_PS_RUNNING" THEN {cur}
    ELSE {ScanLoop(procs, 1, counter) : counter \in 0 .. (Byte - 1)}

\* the for loop of the selection phase of os_Scheduler_InactiveAging
RECURSIVE AgingScan(_, _, _, _)
AgingScan(procs, ages, i, Max) ==
    IF i >= 8 THEN Max
    ELSE AgingScan(procs, ages, i + 1,
           IF Ready(procs, i) /\ ages[i] > ages[Max] THEN i
           ELSE IF Ready(procs, i) /\ ages[i] = ages[Max]
                   /\ procs[i].priority > procs[Max].priority THEN i
           ELSE IF Ready(procs, i) /\ ages[i] = ages[Max]
                   /\ procs[i].priority > procs[Max].priority /\ i < Max THEN i
           ELSE Max)

\* age[] after `age[current] = processes[current].priority`
SeedAge(procs, ages, cur) == [ages EXCEPT ![cur] = procs[cur].priority]

\* the slot the selection phase of os_Scheduler_InactiveAging returns
AgingSelect(procs, ages, cur) == AgingScan(procs, SeedAge(procs, ages, cur), 1, 0)

\* the waiting phase ageing the current slot with the others
AgingWaitAll(procs, ages, cur) ==
    [i \in Slots |-> IF i \in RealSlots THEN ages[i] + procs[i].priority
                     ELSE ages[i]]

\* age[] after the waiting phase: every slot 1..7 but current gains its priority
AgingWait(procs, ages, cur) ==
    [i \in Slots |-> IF i \in RealSlots /\ i # cur THEN ages[i] + procs[i].priority
                     ELSE ages[i]]

\* os_resetSchedulingInformation seeding the slice one tick short
ResetZeitschiebeShort(s, procs, cur, z) ==
    IF s = "OS_SS_ROUND_ROBIN" /\ procs[cur].priority > 0
    THEN procs[cur].priority - 1 ELSE z

\* Zeitschiebe after os_resetSchedulingInformation(s)
ResetZeitschiebe(s, procs, cur, z) ==
    IF s = "OS_SS_ROUND_ROBIN" THEN procs[cur].priority ELSE z

\* os_resetSchedulingInformation clearing age[] from slot 1 on
ResetAgeFromOne(s, ages) ==
    IF s = "OS_SS_INACTIVE_AGING"
    THEN [i \in Slots |-> IF i >= 1 THEN 0 ELSE ages[i]] ELSE ages

\* age[] after os_resetSchedulingInformation(s)
ResetAge(s, ages) ==
    IF s = "OS_SS_INACTIVE_AGING" THEN [i \in Slots |-> 0] ELSE ages

NoSlice == [from |-> "none", calls |-> 0]

(* ------------------------------- actions ------------------------------- *)

\* SchedulingInfo is a zero-initialised global; the table, the running slot
\* and the strategy the kernel boots with are inputs.  On the single core
\* only the running slot can hold a RUNNING process.
Init ==
    /\ processes \in ProcessTables
    /\ current \in Slots
    /\ \A i \in Slots : processes[i].state = "OS_PS_RUNNING" => i = current
    /\ strategy \in SchedulingStrategy
    /\ Zeitschiebe = 0
    /\ age = [i \in Slots |-> 0]
    /\ op = "init"
    /\ arg = current
    /\ slice = NoSlice

os_resetSchedulingInformation(s) ==
    /\ strategy' = s
    /\ Zeitschiebe' = ResetZeitschiebe(s, processes, current, Zeitschiebe)
    /\ age' = ResetAge(s, age)
    /\ op' = "os_resetSchedulingInformation"
    /\ arg' = current
    /\ slice' = IF s = "OS_SS_ROUND_ROBIN" THEN [from |-> "reset", calls |-> 0]
                ELSE NoSlice
    /\ UNCHANGED <<processes, current>>

os_resetProcessSchedulingInformation(id) ==
    /\ age' = [age EXCEPT ![id] = 0]
    /\ op' = "os_resetProcessSchedulingInformation"
    /\ arg' = id
    /\ UNCHANGED <<processes, current, strategy, Zeitschiebe, slice>>

\* os_Scheduler_Even starting a time slice for the slot it returns, as
\* os_Scheduler_RoundRobin does
os_Scheduler_EvenSlicing ==
    /\ strategy = "OS_SS_EVEN"
    /\ current' = Even(processes, current)
    /\ Zeitschiebe' = IF Even(processes, current) # 0
                       THEN processes[Even(processes, current)].priority
                       ELSE Zeitschiebe
    /\ op' = "os_Scheduler_Even"
    /\ arg' = current
    /\ UNCHANGED <<processes, strategy, age, slice>>

os_Scheduler_Even ==
    /\ strategy = "OS_SS_EVEN"
    /\ current' = Even(processes, current)
    /\ op' = "os_Scheduler_Even"
    /\ arg' = current
    /\ UNCHANGED <<processes, strategy, Zeitschiebe, age, slice>>

os_Scheduler_Random ==
    /\ strategy = "OS_SS_RANDOM"
    /\ current' \in Random(processes)
    /\ op' = "os_Scheduler_Random"
    /\ arg' = current
    /\ UNCHANGED <<processes, strategy, Zeitschiebe, age, slice>>

os_Scheduler_RoundRobin ==
    /\ strategy = "OS_SS_ROUND_ROBIN"
    /\ IF Zeitschiebe > 0
       THEN /\ Zeitschiebe' = Zeitschiebe - 1
            /\ current' = current
            /\ slice' = IF slice.from = "none" THEN slice
                        ELSE [slice EXCEPT !.calls = @ + 1]
       ELSE LET i == Even(processes, current)
            IN  /\ current' = i
                /\ Zeitschiebe' = IF i # 0 THEN processes[i].priority ELSE Zeitschiebe
                /\ slice' = IF i # 0 THEN [from |-> "scan", calls |-> 0] ELSE NoSlice
    /\ op' = "os_Scheduler_RoundRobin"
    /\ arg' = current
    /\ UNCHANGED <<processes, strategy, age>>

os_Scheduler_InactiveAging ==
    /\ strategy = "OS_SS_INACTIVE_AGING"
    /\ IF Zeitschiebe > 0
       THEN /\ Zeitschiebe' = Zeitschiebe - 1
            /\ age' = AgingWait(processes, age, current)
            /\ current' = current
       ELSE /\ age' = SeedAge(processes, age, current)
            /\ current' = AgingSelect(processes, age, current)
            /\ UNCHANGED Zeitschiebe
    /\ op' = "os_Scheduler_InactiveAging"
    /\ arg' = current
    /\ UNCHANGED <<processes, strategy, slice>>

os_Scheduler_RunToCompletion ==
    /\ strategy = "OS_SS_RUN_TO_COMPLETION"
    /\ current' \in RunToCompletion(processes, current)
    /\ op' = "os_Scheduler_RunToCompletion"
    /\ arg' = current
    /\ UNCHANGED <<processes, strategy, Zeitschiebe, age, slice>>

\* os_resetProcessSchedulingInformation is called for the slot of a newly
\* started process, which is READY
Next ==
    \/ \E s \in SchedulingStrategy : os_resetSchedulingInformation(s)
    \/ \E id \in {i \in Slots : Ready(processes, i)} :
          os_resetProcessSchedulingInformation(id)
    \/ os_Scheduler_Even
    \/ os_Scheduler_Random
    \/ os_Scheduler_RoundRobin
    \/ os_Scheduler_InactiveAging
    \/ os_Scheduler_RunToCompletion

Spec == Init /\ [][Next]_vars

(* The kernel has just switched to InactiveAging: age[] is cleared and     *)
(* Zeitschiebe holds whatever the previous strategy left in it.  From there *)
(* on every tick calls os_Scheduler_InactiveAging.                          *)
InitAging ==
    /\ processes \in ProcessTables
    /\ current \in Slots
    /\ \A i \in Slots : processes[i].state = "OS_PS_RUNNING" => i = current
    /\ strategy = "OS_SS_INACTIVE_AGING"
    /\ Zeitschiebe \in 0 .. MaxPriority
    /\ age = [i \in Slots |-> 0]
    /\ op = "os_resetSchedulingInformation"
    /\ arg = current
    /\ slice = NoSlice

NextAging == os_Scheduler_InactiveAging

SpecAging == InitAging /\ [][NextAging]_vars /\ WF_vars(os_Scheduler_InactiveAging)

(* ------------------------------- claims -------------------------------- *)

TypeOK ==
    /\ current \in Slots
    /\ arg \in Slots
    /\ Zeitschiebe \in 0 .. MaxPriority
    /\ \A i \in Slots : age[i] \in 0 .. (MaxPriority * MaxPriority)

\* C1: with at least one of the slots 1..7 READY, a call to Even, RoundRobin,
\* RunToCompletion or InactiveAging does not return slot 0.
C1_NeverIdleWhileReady ==
    (/\ op \in {"os_Scheduler_Even", "os_Scheduler_RoundRobin",
                "os_Scheduler_RunToCompletion", "os_Scheduler_InactiveAging"}
     /\ ReadySlots(processes) # {})
    => current # 0

\* C2: Even called with exactly one of the slots 1..7 READY, slot k, returns
\* k for every value of current (current = k and current = 0 included).
C2_EvenSingleReady ==
    \A k \in RealSlots :
        (op = "os_Scheduler_Even" /\ ReadySlots(processes) = {k}) => current = k

\* C3: after a RoundRobin scan selected a slot of priority p, the next p-1
\* RoundRobin calls return that slot, and the p-th call after the scan scans
\* again (it finds Zeitschiebe = 0).
C3_SliceEndsAfterPriority ==
    [][ (op' = "os_Scheduler_RoundRobin" /\ slice.from = "scan") =>
          /\ slice.calls < processes[current].priority - 1 =>
                (Zeitschiebe > 0 /\ current' = current)
          /\ slice.calls = processes[current].priority - 1 => Zeitschiebe = 0
      ]_vars

\* C4: after os_resetSchedulingInformation(RoundRobin) with the current slot
\* of priority p, the next p RoundRobin calls return current from the
\* countdown branch, and call p+1 is the first that scans.
C4_SliceAfterReset ==
    [][ (op' = "os_Scheduler_RoundRobin" /\ slice.from = "reset") =>
          /\ slice.calls < processes[current].priority =>
                (Zeitschiebe > 0 /\ current' = current /\ slice'.from = "reset")
          /\ slice.calls = processes[current].priority =>
                (Zeitschiebe = 0 /\ current' = Even(processes, current))
          /\ slice.calls <= processes[current].priority
      ]_vars

\* C4 witness: the p = MaxPriority countdown calls after the reset were made
C4_Witness ==
    /\ op = "os_Scheduler_RoundRobin"
    /\ slice = [from |-> "reset", calls |-> MaxPriority]
    /\ processes[current].priority = MaxPriority
    /\ Zeitschiebe = 0

\* a is selected before b: age descending, priority descending, index ascending
AgingBefore(procs, ages, a, b) ==
    \/ ages[a] > ages[b]
    \/ ages[a] = ages[b] /\ procs[a].priority > procs[b].priority
    \/ ages[a] = ages[b] /\ procs[a].priority = procs[b].priority /\ a < b

\* C5: in the selection phase of InactiveAging the slot returned is the first
\* READY slot of 1..7 in the order age descending, priority descending,
\* index ascending.
C5_AgingOrder ==
    [][ (/\ op' = "os_Scheduler_InactiveAging"
         /\ Zeitschiebe = 0
         /\ ReadySlots(processes) # {}) =>
          /\ current' \in ReadySlots(processes)
          /\ \A s \in ReadySlots(processes) \ {current'} :
                AgingBefore(processes, age', current', s)
      ]_vars

\* C6: RunToCompletion called with processes[current].state = RUNNING
\* returns current, whatever the other slots hold.
C6_RunningKeepsCurrent ==
    (op = "os_Scheduler_RunToCompletion" /\ processes[arg].state = "OS_PS_RUNNING")
    => current = arg

\* C6 witness: a RUNNING process in one of the slots 1..7 was kept although
\* another slot is READY
C6_Witness ==
    /\ op = "os_Scheduler_RunToCompletion"
    /\ arg \in RealSlots
    /\ processes[arg].state = "OS_PS_RUNNING"
    /\ ReadySlots(processes) # {}
    /\ current = arg

\* C7: after os_resetSchedulingInformation(InactiveAging) every age[i] is 0,
\* and after os_resetProcessSchedulingInformation(s) age[s] is 0.
C7_ResetContract ==
    /\ (op = "os_resetSchedulingInformation" /\ strategy = "OS_SS_INACTIVE_AGING")
          => \A i \in Slots : age[i] = 0
    /\ op = "os_resetProcessSchedulingInformation" => age[arg] = 0

\* C7 witness: one slot was cleared while another still holds its age
C7_Witness ==
    /\ op = "os_resetProcessSchedulingInformation"
    /\ age[arg] = 0
    /\ \E j \in Slots : age[j] > 0

\* C8: after os_resetSchedulingInformation for RoundRobin or InactiveAging,
\* Zeitschiebe does not depend on the value the previous strategy left in
\* it: it is the value the reset yields from a Zeitschiebe of 0.
C8_ResetIgnoresLeftover ==
    [][ (/\ op' = "os_resetSchedulingInformation"
         /\ strategy' \in {"OS_SS_ROUND_ROBIN", "OS_SS_INACTIVE_AGING"}) =>
          Zeitschiebe' = ResetZeitschiebe(strategy', processes, current, 0)
      ]_vars

\* C9: in the selection phase of InactiveAging with current in 1..7 and some
\* slot READY, the slot returned is the one returned for any other idle
\* process in slot 0 and for age[0] cleared or seeded with its priority.
C9_IdleSlotIgnored ==
    [][ (/\ op' = "os_Scheduler_InactiveAging"
         /\ Zeitschiebe = 0
         /\ current \in RealSlots
         /\ ReadySlots(processes) # {}) =>
          \A idle \in Processes \cup IdleProcesses : \A a0 \in {0, idle.priority} :
              AgingSelect([processes EXCEPT ![0] = idle],
                          [age EXCEPT ![0] = a0], current) = current'
      ]_vars

\* C10: after the switch to InactiveAging, with the table unchanged, every
\* READY slot of 1..7 is eventually returned by an InactiveAging call.
C10_NoStarvation ==
    \A k \in RealSlots :
        Ready(processes, k) => <>(op = "os_Scheduler_InactiveAging" /\ current = k)

Selectors ==
    {"os_Scheduler_Even", "os_Scheduler_Random", "os_Scheduler_RoundRobin",
     "os_Scheduler_InactiveAging", "os_Scheduler_RunToCompletion"}

\* C11: when the selection phase of InactiveAging (Zeitschiebe = 0) returns
\* the slot w of a process, age[w] equals processes[w].priority on return.
C11_ReturnedAgeReset ==
    [][ (/\ op' = "os_Scheduler_InactiveAging"
         /\ Zeitschiebe = 0
         /\ current' \in RealSlots) =>
          age'[current'] = processes[current'].priority ]_vars

\* C12: RunToCompletion called with a current slot of 1..7 whose process is
\* READY returns that slot again.
C12_ReadyKeepsCurrent ==
    (/\ op = "os_Scheduler_RunToCompletion"
     /\ arg \in RealSlots
     /\ Ready(processes, arg)) => current = arg

\* C13 as stated: every selector returns an index of the half-open range
\* [0, MAX_NUMBER_OF_PROCESSES - 1), that is, never the last slot.
C13_IndexBelowLastSlot ==
    op \in Selectors => current \in 0 .. (MAX_NUMBER_OF_PROCESSES - 2)

\* C13: every selector returns an index of the table, 0 up to and including
\* MAX_NUMBER_OF_PROCESSES - 1.
C13_IndexInTable ==
    op \in Selectors => current \in 0 .. (MAX_NUMBER_OF_PROCESSES - 1)

\* a scan that was handed a READY last slot and returned it
C13_Witness ==
    /\ op \in {"os_Scheduler_Even", "os_Scheduler_RunToCompletion"}
    /\ arg # MAX_NUMBER_OF_PROCESSES - 1
    /\ Ready(processes, MAX_NUMBER_OF_PROCESSES - 1)
    /\ current = MAX_NUMBER_OF_PROCESSES - 1

\* C14: Random returns 0 exactly when no slot of 1..7 is READY, and otherwise
\* a READY slot of 1..7, whatever rand() yields.
C14_RandomReady ==
    op = "os_Scheduler_Random" =>
        /\ current = 0 <=> ReadySlots(processes) = {}
        /\ ReadySlots(processes) # {} => current \in ReadySlots(processes)

\* rand() picked the second of two READY slots
C14_Witness ==
    /\ op = "os_Scheduler_Random"
    /\ Cardinality(ReadySlots(processes)) >= 2
    /\ \E k \in ReadySlots(processes) : k < current
    /\ Ready(processes, 0)

\* the k-th slot of the cyclic order current+1, current+2, ... over 1..7
Probe(cur, k) == ((cur + k - 1) % (MAX_NUMBER_OF_PROCESSES - 1)) + 1

\* the numbers k of the probes of a scan on a READY slot
ReadyProbes(procs, cur) == {k \in 1 .. ScanCap : Ready(procs, Probe(cur, k))}

\* the first READY slot among the probes of a scan after cur, 0 without one
FirstReadyProbe(procs, cur) ==
    IF ReadyProbes(procs, cur) = {} THEN 0
    ELSE Probe(cur, CHOOSE k \in ReadyProbes(procs, cur) :
                        \A m \in ReadyProbes(procs, cur) : k <= m)

\* an eight slot table whose slots 2 and 5 hold READY processes
TwoFiveReady ==
    [i \in Slots |-> IF i \in {2, 5} THEN [state |-> "OS_PS_READY", priority |-> 1]
                     ELSE IF i = 0 THEN [state |-> "OS_PS_READY", priority |-> IdlePriority]
                     ELSE UnusedProcess]

\* C15: Even returns the first READY slot among the slots it probes, which
\* are taken in the order current+1, current+2, ... with 1 following 7 and
\* slot 0 left out; with slots 2 and 5 READY and current = 5 it returns 2.
C15_EvenFirstReady ==
    /\ op = "os_Scheduler_Even" => current = FirstReadyProbe(processes, arg)
    /\ Even(TwoFiveReady, 5) = 2

\* Even wrapped from the last slot to slot 1 past a READY idle process
C15_Witness ==
    /\ op = "os_Scheduler_Even"
    /\ arg = MAX_NUMBER_OF_PROCESSES - 1
    /\ Ready(processes, arg)
    /\ Ready(processes, 0)
    /\ current = 1

\* C16: RunToCompletion called with a current process that is not RUNNING
\* returns the lowest READY slot of 1..7, and 0 exactly when there is none.
C16_LowestReady ==
    (op = "os_Scheduler_RunToCompletion" /\ processes[arg].state # "OS_PS_RUNNING") =>
        /\ current = 0 <=> ReadySlots(processes) = {}
        /\ ReadySlots(processes) # {} =>
              (current \in ReadySlots(processes)
               /\ \A k \in ReadySlots(processes) : current <= k)

\* C17: an InactiveAging call with Zeitschiebe > 0 lowers Zeitschiebe by
\* exactly 1, adds processes[i].priority to age[i] for every slot i of 1..7
\* other than current, leaves age[current] and age[0] as they were, and
\* returns current.
C17_WaitingPhase ==
    [][ (op' = "os_Scheduler_InactiveAging" /\ Zeitschiebe > 0) =>
          /\ Zeitschiebe' = Zeitschiebe - 1
          /\ \A i \in RealSlots \ {current} :
                age'[i] = age[i] + processes[i].priority
          /\ age'[current] = age[current]
          /\ age'[0] = age[0]
          /\ current' = current ]_vars

\* a waiting call has aged another process while the current one kept its age
C17_Witness ==
    /\ op = "os_Scheduler_InactiveAging"
    /\ strategy = "OS_SS_INACTIVE_AGING"
    /\ Zeitschiebe = MaxPriority - 1
    /\ current \in RealSlots
    /\ processes[current].priority > 0
    /\ age[current] = 0
    /\ \E i \in RealSlots \ {current} :
          processes[i].priority > 0 /\ age[i] = processes[i].priority

\* C18: a call of Even, Random or RunToCompletion leaves Zeitschiebe and
\* every entry of age[] as they were before the call.
C18_SchedulingStateKept ==
    [][ op' \in {"os_Scheduler_Even", "os_Scheduler_Random",
                 "os_Scheduler_RunToCompletion"} =>
          (Zeitschiebe' = Zeitschiebe /\ age' = age) ]_vars

\* Even returned a process while a time slice and ages were left over
C18_Witness ==
    /\ op = "os_Scheduler_Even"
    /\ current \in RealSlots
    /\ Zeitschiebe > 0
    /\ Zeitschiebe # processes[current].priority
    /\ \E i \in RealSlots : age[i] > 0

\* C19: a nonzero slot returned by Even, by the scan of RoundRobin
\* (Zeitschiebe = 0), by the selection phase of InactiveAging or by the scan
\* of RunToCompletion holds a READY process.
C19_ReturnedIsReady ==
    [][ (/\ \/ op' = "os_Scheduler_Even"
            \/ op' = "os_Scheduler_RoundRobin" /\ Zeitschiebe = 0
            \/ op' = "os_Scheduler_InactiveAging" /\ Zeitschiebe = 0
            \/ op' = "os_Scheduler_RunToCompletion"
                  /\ processes[current].state # "OS_PS_RUNNING"
         /\ current' # 0) =>
          Ready(processes, current') ]_vars

\* a scan left a RUNNING process for the READY process of another slot
C19_Witness ==
    /\ op \in {"os_Scheduler_Even", "os_Scheduler_RoundRobin"}
    /\ processes[arg].state = "OS_PS_RUNNING"
    /\ current \in RealSlots \ {arg}
    /\ Ready(processes, current)

(* RoundRobin alone: the table is fixed, the result of every call is the
   current slot of the next one, and the calls never stop coming.  The first
   call finds any current slot and any time slice left in Zeitschiebe. *)
InitRoundRobin ==
    /\ processes \in ProcessTables
    /\ current \in Slots
    /\ \A i \in Slots : processes[i].state = "OS_PS_RUNNING" => i = current
    /\ strategy = "OS_SS_ROUND_ROBIN"
    /\ Zeitschiebe \in 0 .. MaxPriority
    /\ age = [i \in Slots |-> 0]
    /\ op = "init"
    /\ arg = current
    /\ slice = NoSlice

NextRoundRobin == os_Scheduler_RoundRobin

SpecRoundRobin ==
    InitRoundRobin /\ [][NextRoundRobin]_vars /\ WF_vars(os_Scheduler_RoundRobin)

\* C20: under RoundRobin calls alone, with the table unchanged, every READY
\* slot of 1..7 is returned again and again without end.
C20_RoundRobinNoStarvation ==
    \A k \in RealSlots :
        Ready(processes, k) => []<>(op = "os_Scheduler_RoundRobin" /\ current = k)

=============================================================================
